---- MODULE Spec2Model ----
(***************************************************************************)
(* Habit tracker: the habit repository (useHabits), its persistent store   *)
(* binding (useLocalStorage) and the statistics engine (calculateStreak,   *)
(* getHabitStats, the memoized habitStats).                                *)
(*                                                                         *)
(* Instants are integers counting milliseconds; a calendar-day identifier  *)
(* ("YYYY-MM-DD", fixed width, so string order is chronological order) is  *)
(* the number of the UTC day, which is what toISOString().split('T')[0]    *)
(* denotes. Local time is UTC plus the offset of the browser's time zone,   *)
(* which a daylight-saving shift changes at one instant.                   *)
(***************************************************************************)
EXTENDS Integers, Sequences, FiniteSets, TLC

\* ---- bounds ----
MaxNow == 1            \* milliseconds the repository's clock advances
MsPerDay == 2          \* milliseconds in a day, scaled down
MaxHabits == 2         \* habits the collection may hold
MaxWriteFailures == 1  \* setItem calls that may throw
MaxDay == 3            \* the statistics are exercised on the days 0..MaxDay

DaysShown == 7         \* getDateRange(7): the columns of the grid
Days == 0..MaxDay
StatsMaxNow == MsPerDay * (MaxDay + 1) - 1
\* the app is opened MaxNow milliseconds before the midnight that ends day 0
Epoch == MsPerDay - MaxNow
Names == {"Read"}
Emojis == {"book"}
Colors == {"#3B82F6"}

VARIABLES
  storedValue,  \* the React state cell of useLocalStorage('habits', [])
  habits,       \* the storedValue the closures of the last render captured
  store,        \* window.localStorage item "habits"
  habitStats,   \* the useMemo'd mapping id -> HabitStats
  now,          \* the clock behind new Date() and Date.now()
  pending,      \* a setStoredValue call is waiting for the re-render
  failures,     \* localStorage.setItem calls that threw so far
  valueKind,    \* what kind of JavaScript value storedValue holds
  crashed,      \* a render threw and React unmounted the tree
  timeZone,     \* the time zone of the browser
  shownDates,   \* const dates = getDateRange(...) of the last grid render
  peer          \* storedValue of a second tab on the same localStorage

vars ==
  <<storedValue, habits, store, habitStats, now, pending, failures,
    valueKind, crashed, timeZone, shownDates, peer>>

\* what no operation of the repository touches
env == <<valueKind, crashed, timeZone, shownDates, peer>>

\* ---- calendar utilities ----
\* a time zone: local time is UTC + offset before the instant shiftAt and
\* UTC + offset + shift from it on
UTC == [offset |-> 0, shiftAt |-> 0, shift |-> 0]

zoneOffset(date) ==
  IF date < timeZone.shiftAt THEN timeZone.offset
  ELSE timeZone.offset + timeZone.shift

\* ECMAScript LocalTime(t)
LocalTime(date) == date + zoneOffset(date)

\* ECMAScript UTC(t): a local time that the shift skips or repeats is read
\* with the offset before the shift
UTCOf(local) ==
  IF local - timeZone.offset < timeZone.shiftAt
    THEN local - timeZone.offset
  ELSE IF local - timeZone.offset - timeZone.shift >= timeZone.shiftAt
    THEN local - timeZone.offset - timeZone.shift
  ELSE local - timeZone.offset

\* toISOString().split('T')[0]: the UTC day
formatDate(date) == date \div MsPerDay

\* the local calendar day a Date shows (getFullYear, getMonth, getDate)
getDate(date) == LocalTime(date) \div MsPerDay

\* date.setDate(today.getDate() - i) on a copy of today: the local calendar
\* day moves back i days, the local time of day stays
setDate(today, i) == UTCOf(LocalTime(today) - i * MsPerDay)

\* getDateRange(days): the Dates pushed for i = days - 1 down to 0
getDateRange(days, today) ==
  [k \in 1..days |-> setDate(today, days - k)]

\* formatDate(date) of the grid's cells; no day before day 0 is shown
cellDates(today) ==
  {formatDate(getDateRange(DaysShown, today)[k]) : k \in 1..DaysShown}
    \cap Nat

\* formatDate(date) === formatDate(today)
isToday(date, today) == formatDate(date) = formatDate(today)

\* ---- completions: Record<string, boolean> ----
\* habit.completions[date] read as a condition (undefined is falsy)
Completed(completions, date) ==
  date \in DOMAIN completions /\ completions[date]

NoCompletions == [d \in {} |-> TRUE]

\* ---- JSON text of a habit collection ----
NoItem == [present |-> FALSE, kind |-> "none", text |-> <<>>]

\* every own property of the object is serialized
JSONstringifyHabit(h) ==
  [f \in DOMAIN h |->
     IF f = "completions"
       THEN {<<d, h.completions[d]>> : d \in DOMAIN h.completions}
       ELSE h[f]]

JSONstringify(value) ==
  [present |-> TRUE, kind |-> "array",
   text |-> [i \in 1..Len(value) |-> JSONstringifyHabit(value[i])]]

\* today counted whether it is completed or not
RECURSIVE calculateStreakLoopCountsMisses(_, _, _, _)
calculateStreakLoopCountsMisses(completions, today, i, streak) ==
  IF ~(i >= 0) THEN streak
  ELSE LET dateString == formatDate(setDate(today, i)) IN
       IF Completed(completions, dateString) \/ i = 0
         THEN calculateStreakLoopCountsMisses(completions, today, i - 1,
                                              streak + 1)
       ELSE streak

\* ---- statistics engine ----
RECURSIVE calculateStreakLoop(_, _, _, _)
calculateStreakLoop(completions, today, i, streak) ==
  IF ~(i >= 0) THEN streak
  ELSE LET dateString == formatDate(setDate(today, i)) IN
       IF Completed(completions, dateString)
         THEN calculateStreakLoop(completions, today, i - 1, streak + 1)
       ELSE IF i = 0
         THEN calculateStreakLoop(completions, today, i - 1, streak)
       ELSE streak

\* the loop walking back with i++ until the first miss after today
RECURSIVE daysExaminedWalkingBack(_, _, _, _)
daysExaminedWalkingBack(completions, today, i, examined) ==
  IF ~(i >= 0) THEN examined
  ELSE LET dateString == formatDate(setDate(today, i)) IN
       IF Completed(completions, dateString) \/ i = 0
         THEN daysExaminedWalkingBack(completions, today, i + 1, examined + 1)
       ELSE examined + 1

\* the executions of the loop body of calculateStreak
RECURSIVE daysExamined(_, _, _, _)
daysExamined(completions, today, i, examined) ==
  IF ~(i >= 0) THEN examined
  ELSE LET dateString == formatDate(setDate(today, i)) IN
       IF Completed(completions, dateString) \/ i = 0
         THEN daysExamined(completions, today, i - 1, examined + 1)
       ELSE examined + 1

\* the streak counter starting at 1 instead of 0
calculateStreakOffByOne(habit, today) ==
  calculateStreakLoop(habit.completions, today, 0, 1)

calculateStreak(habit, today) ==
  calculateStreakLoop(habit.completions, today, 0, 0)

Min(S) == CHOOSE x \in S : \A y \in S : x <= y

\* Object.keys(habit.completions).sort()
RECURSIVE sortedDates(_)
sortedDates(keys) ==
  IF keys = {} THEN <<>>
  ELSE <<Min(keys)>> \o sortedDates(keys \ {Min(keys)})

\* the filter(Boolean) forgotten: every value counts
RECURSIVE countCompletionsUnfiltered(_, _)
countCompletionsUnfiltered(completions, dates) ==
  IF dates = <<>> THEN 0
  ELSE 1 + countCompletionsUnfiltered(completions, Tail(dates))

\* Object.values(habit.completions).filter(Boolean).length
RECURSIVE countCompletions(_, _)
countCompletions(completions, dates) ==
  IF dates = <<>> THEN 0
  ELSE (IF completions[Head(dates)] THEN 1 ELSE 0)
       + countCompletions(completions, Tail(dates))

\* Object.keys(habit.completions).length
totalDays(completions) == Cardinality(DOMAIN completions)

\* the reset of tempStreak on a false entry forgotten
RECURSIVE longestStreakLoopNoReset(_, _, _, _)
longestStreakLoopNoReset(completions, dates, longestStreak, tempStreak) ==
  IF dates = <<>> THEN longestStreak
  ELSE IF completions[Head(dates)]
    THEN longestStreakLoopNoReset(completions, Tail(dates),
           IF tempStreak + 1 > longestStreak THEN tempStreak + 1
           ELSE longestStreak,
           tempStreak + 1)
    ELSE longestStreakLoopNoReset(completions, Tail(dates), longestStreak,
                                  tempStreak)

RECURSIVE longestStreakLoop(_, _, _, _)
longestStreakLoop(completions, dates, longestStreak, tempStreak) ==
  IF dates = <<>> THEN longestStreak
  ELSE IF completions[Head(dates)]
    THEN longestStreakLoop(completions, Tail(dates),
           IF tempStreak + 1 > longestStreak THEN tempStreak + 1
           ELSE longestStreak,
           tempStreak + 1)
    ELSE longestStreakLoop(completions, Tail(dates), longestStreak, 0)

\* the totalDays > 0 guard forgotten
completionRateUnguarded(completions, total) ==
  [num |-> completions * 100, den |-> total]

\* completionRate is the exact quotient num/den
completionRate(completions, total) ==
  IF total > 0 THEN [num |-> completions * 100, den |-> total]
  ELSE [num |-> 0, den |-> 1]

getHabitStats(habit, today) ==
  LET dates == sortedDates(DOMAIN habit.completions)
      completions == countCompletions(habit.completions, dates)
  IN [currentStreak |-> calculateStreak(habit, today),
      longestStreak |-> longestStreakLoop(habit.completions, dates, 0, 0),
      completionRate |-> completionRate(completions,
                                        totalDays(habit.completions)),
      totalCompletions |-> completions]

\* habits.reduce((acc, habit) => { acc[habit.id] = getHabitStats(habit) })
RECURSIVE habitStatsReduce(_, _, _)
habitStatsReduce(acc, hs, today) ==
  IF hs = <<>> THEN acc
  ELSE habitStatsReduce(
         [id \in DOMAIN acc \cup {Head(hs).id} |->
            IF id = Head(hs).id THEN getHabitStats(Head(hs), today)
            ELSE acc[id]],
         Tail(hs), today)

NoStats == [id \in {} |-> 0]

habitStatsOf(hs, today) == habitStatsReduce(NoStats, hs, today)

\* setItem given the value of the closure instead of valueToStore
setValueWritesStale(valueToStore, ok, flush) ==
  /\ storedValue' = valueToStore
  /\ IF ok
       THEN /\ store' = JSONstringify(storedValue)
            /\ failures' = failures
       ELSE /\ failures < MaxWriteFailures
            /\ store' = store
            /\ failures' = failures + 1
  /\ IF flush
       THEN /\ habits' = valueToStore
            /\ habitStats' = habitStatsOf(valueToStore, now)
            /\ pending' = FALSE
       ELSE /\ UNCHANGED <<habits, habitStats>>
            /\ pending' = TRUE
  /\ UNCHANGED env

\* setItem called before setStoredValue: a throwing write skips the update
setValueWritesFirst(valueToStore, ok, flush) ==
  /\ IF ok
       THEN /\ storedValue' = valueToStore
            /\ store' = JSONstringify(valueToStore)
            /\ failures' = failures
       ELSE /\ failures < MaxWriteFailures
            /\ storedValue' = storedValue
            /\ store' = store
            /\ failures' = failures + 1
  /\ IF flush
       THEN /\ habits' = storedValue'
            /\ habitStats' = habitStatsOf(storedValue', now)
            /\ pending' = FALSE
       ELSE /\ UNCHANGED <<habits, habitStats>>
            /\ pending' = TRUE
  /\ UNCHANGED env

\* no further setItem once a write has failed
setValueGivesUp(valueToStore, ok, flush) ==
  /\ storedValue' = valueToStore
  /\ IF ok
       THEN /\ store' = IF failures > 0 THEN store
                        ELSE JSONstringify(valueToStore)
            /\ failures' = failures
       ELSE /\ failures < MaxWriteFailures
            /\ store' = store
            /\ failures' = failures + 1
  /\ IF flush
       THEN /\ habits' = valueToStore
            /\ habitStats' = habitStatsOf(valueToStore, now)
            /\ pending' = FALSE
       ELSE /\ UNCHANGED <<habits, habitStats>>
            /\ pending' = TRUE
  /\ UNCHANGED env

\* ---- useLocalStorage.setValue and the re-render it schedules ----
\* flush: React re-renders the component before the next call (the closures
\* and the memo then see valueToStore); otherwise the update stays pending.
setValue(valueToStore, ok, flush) ==
  /\ storedValue' = valueToStore
  /\ IF ok
       THEN /\ store' = JSONstringify(valueToStore)
            /\ failures' = failures
       ELSE /\ failures < MaxWriteFailures
            /\ store' = store
            /\ failures' = failures + 1
  /\ IF flush
       THEN /\ habits' = valueToStore
            /\ habitStats' = habitStatsOf(valueToStore, now)
            /\ pending' = FALSE
       ELSE /\ UNCHANGED <<habits, habitStats>>
            /\ pending' = TRUE
  /\ UNCHANGED env

\* ---- useHabits ----
\* the new habit created with a cached statistic
newHabitWithStats(name, emoji, color) ==
  [id |-> ToString(now), name |-> name, emoji |-> emoji, color |-> color,
   createdAt |-> formatDate(now), completions |-> NoCompletions,
   totalCompletions |-> 0]

newHabit(name, emoji, color) ==
  [id |-> ToString(now), name |-> name, emoji |-> emoji, color |-> color,
   createdAt |-> formatDate(now), completions |-> NoCompletions]

\* [newHabit, ...prev] instead of [...prev, newHabit]
addHabitUpdaterPrepends(prev, h) == <<h>> \o prev

addHabitUpdater(prev, h) == Append(prev, h)

\* only the first habit of that id removed (findIndex and splice)
deleteHabitUpdaterFirstOnly(prev, id) ==
  IF id \notin {prev[i].id : i \in 1..Len(prev)} THEN prev
  ELSE LET k == CHOOSE i \in 1..Len(prev) :
                  /\ prev[i].id = id
                  /\ \A j \in 1..(i - 1) : prev[j].id # id
       IN SubSeq(prev, 1, k - 1) \o SubSeq(prev, k + 1, Len(prev))

deleteHabitUpdater(prev, id) == SelectSeq(prev, LAMBDA habit : habit.id # id)

\* [date]: true instead of [date]: !habit.completions[date]
toggleEntryAlwaysTrue(completions, date) ==
  [d \in DOMAIN completions \cup {date} |->
     IF d = date THEN TRUE ELSE completions[d]]

\* [date]: !(date in habit.completions): the key's presence negated
toggleEntryByPresence(completions, date) ==
  [d \in DOMAIN completions \cup {date} |->
     IF d = date THEN date \notin DOMAIN completions ELSE completions[d]]

toggleEntry(completions, date) ==
  [d \in DOMAIN completions \cup {date} |->
     IF d = date THEN ~Completed(completions, date) ELSE completions[d]]

\* a habit is toggled when its id differs: the comparison inverted
toggleCompletionUpdaterInverted(prev, habitId, date) ==
  [i \in 1..Len(prev) |->
     IF prev[i].id # habitId
       THEN [prev[i] EXCEPT !.completions = toggleEntry(@, date)]
       ELSE prev[i]]

toggleCompletionUpdater(prev, habitId, date) ==
  [i \in 1..Len(prev) |->
     IF prev[i].id = habitId
       THEN [prev[i] EXCEPT !.completions = toggleEntry(@, date)]
       ELSE prev[i]]

IdsOf(hs) == {hs[i].id : i \in 1..Len(hs)}

\* an id that no habit ever carries
UnknownId == ToString(Epoch + MaxNow + 1)

addHabit(name, emoji, color, ok, flush) ==
  /\ Len(habits) < MaxHabits
  /\ setValue(addHabitUpdater(habits, newHabit(name, emoji, color)), ok, flush)
  /\ UNCHANGED now

deleteHabit(id, ok, flush) ==
  /\ setValue(deleteHabitUpdater(habits, id), ok, flush)
  /\ UNCHANGED now

toggleCompletion(habitId, date, ok, flush) ==
  /\ setValue(toggleCompletionUpdater(habits, habitId, date), ok, flush)
  /\ UNCHANGED now

\* { ...habit, ...updates } with updates: Partial<Habit>
mergeUpdates(habit, updates) ==
  [f \in DOMAIN habit |->
     IF f \in DOMAIN updates THEN updates[f] ELSE habit[f]]

updateHabitUpdater(prev, id, updates) ==
  [i \in 1..Len(prev) |->
     IF prev[i].id = id THEN mergeUpdates(prev[i], updates) ELSE prev[i]]

updateHabit(id, updates, ok, flush) ==
  /\ setValue(updateHabitUpdater(habits, id, updates), ok, flush)
  /\ UNCHANGED now

\* ---- the repository driven by the presentation layer: every event handler
\* ---- issues one call and React re-renders before the next event
AddHabit ==
  \E name \in Names, emoji \in Emojis, color \in Colors, ok \in BOOLEAN :
    ~pending /\ addHabit(name, emoji, color, ok, TRUE)

DeleteHabit ==
  \E id \in IdsOf(habits) \cup {UnknownId}, ok \in BOOLEAN :
    ~pending /\ deleteHabit(id, ok, TRUE)

ToggleCompletion ==
  \E habitId \in IdsOf(habits) \cup {UnknownId}, date \in cellDates(now),
     ok \in BOOLEAN :
    ~pending /\ toggleCompletion(habitId, date, ok, TRUE)

\* the clock advances by one millisecond
Tick ==
  /\ now < Epoch + MaxNow
  /\ now' = now + 1
  /\ UNCHANGED <<storedValue, habits, store, habitStats, pending, failures>>
  /\ UNCHANGED env

Init ==
  /\ storedValue = <<>>
  /\ habits = <<>>
  /\ store = NoItem
  /\ habitStats = NoStats
  /\ now = Epoch
  /\ pending = FALSE
  /\ failures = 0
  /\ valueKind = "array"
  /\ crashed = FALSE
  /\ timeZone = UTC
  /\ shownDates = <<>>
  /\ peer = <<>>

Next == AddHabit \/ DeleteHabit \/ ToggleCompletion \/ Tick

Spec == Init /\ [][Next]_vars

\* ---- the repository with every operation useHabits returns, updateHabit
\* ---- included
Updates ==
  {[name |-> "Gym"], [id |-> UnknownId], [createdAt |-> MaxDay],
   [completions |-> NoCompletions]}

UpdateHabit ==
  \E id \in IdsOf(habits) \cup {UnknownId}, updates \in Updates,
     ok \in BOOLEAN :
    ~pending /\ updateHabit(id, updates, ok, TRUE)

NextExposed == AddHabit \/ DeleteHabit \/ ToggleCompletion \/ UpdateHabit \/ Tick

SpecExposed == Init /\ [][NextExposed]_vars

AllCompletions ==
  UNION {[S -> BOOLEAN] : S \in SUBSET Days}

\* ---- mounting: the useState initializer of useLocalStorage reads the item,
\* ---- then the first render computes habitStats
\* texts JSON.parse accepts that are no array of Habit records:
\* null, false, 0, 5, {}, [{}]
OtherJSON == {"null", "false", "zero", "number", "object", "objectArray"}

Item(kind) == [present |-> TRUE, kind |-> kind, text |-> <<>>]

JSONparseHabit(t) ==
  [id |-> t.id, name |-> t.name, emoji |-> t.emoji, color |-> t.color,
   createdAt |-> t.createdAt,
   completions |-> [d \in {e[1] : e \in t.completions} |->
                      CHOOSE b \in BOOLEAN : <<d, b>> \in t.completions]]

\* JSON.parse: a SyntaxError for "" and for corrupt text
JSONparse(item) ==
  IF item.kind \in {"empty", "corrupt"}
    THEN [threw |-> TRUE, kind |-> "none", value |-> <<>>]
    ELSE [threw |-> FALSE, kind |-> item.kind,
          value |-> [i \in 1..Len(item.text) |-> JSONparseHabit(item.text[i])]]

initialValue == [threw |-> FALSE, kind |-> "array", value |-> <<>>]

\* the parsed value tested instead of the text: parsed ? parsed : initialValue
initializerTestsValue(item) ==
  IF item.present /\ item.kind # "empty"
    THEN LET parsed == JSONparse(item)
         IN IF parsed.threw \/ parsed.kind \in {"null", "false", "zero"}
              THEN initialValue
              ELSE parsed
    ELSE initialValue

\* the initializer without its try/catch
initializerNoCatch(item) ==
  IF item.present /\ item.kind # "empty"
    THEN JSONparse(item)
    ELSE initialValue

\* item ? JSON.parse(item) : initialValue, inside try/catch
initializer(item) ==
  IF item.present /\ item.kind # "empty"
    THEN LET parsed == JSONparse(item)
         IN IF parsed.threw THEN initialValue ELSE parsed
    ELSE initialValue

\* habits.reduce and Object.keys(habit.completions) throw a TypeError unless
\* the value is an array of Habit records
renderThrows(kind) == kind # "array"

Mount ==
  /\ pending /\ ~crashed
  /\ LET r == initializer(store)
     IN IF r.threw \/ renderThrows(r.kind)
          THEN \* the state cell holds the non-array value valueKind names
               /\ crashed' = TRUE
               /\ valueKind' = r.kind
               /\ UNCHANGED <<storedValue, habits, habitStats, pending>>
          ELSE /\ storedValue' = r.value
               /\ valueKind' = r.kind
               /\ habits' = r.value
               /\ habitStats' = habitStatsOf(r.value, now)
               /\ pending' = FALSE
               /\ crashed' = FALSE
  /\ UNCHANGED <<store, now, failures, timeZone, shownDates, peer>>

StoredCollections ==
  {<<>>} \cup
  {<<[id |-> ToString(t), name |-> "Read", emoji |-> "book",
      color |-> "#3B82F6", createdAt |-> formatDate(created),
      completions |-> completions]>> :
     t \in 0..MaxNow, created \in 0..StatsMaxNow,
     completions \in AllCompletions}

InitLoad ==
  /\ store \in {NoItem} \cup {Item(k) : k \in {"empty", "corrupt"} \cup OtherJSON}
                \cup {JSONstringify(c) : c \in StoredCollections}
  /\ now \in 0..MaxNow
  /\ storedValue = <<>>
  /\ habits = <<>>
  /\ habitStats = NoStats
  /\ pending = TRUE
  /\ failures = 0
  /\ valueKind = "array"
  /\ crashed = FALSE
  /\ timeZone = UTC
  /\ shownDates = <<>>
  /\ peer = <<>>

NextLoad == Mount

SpecLoad == InitLoad /\ [][NextLoad]_vars

\* ---- two tabs on one localStorage: both mounted while the store was empty;
\* ---- the second tab runs the same code on its own state cell, with a
\* ---- re-render after every call and writes that succeed
\* the write merged into what the store holds
peerSetValueMerges(valueToStore) ==
  /\ peer' = valueToStore
  /\ store' = JSONstringify(initializer(store).value \o valueToStore)
  /\ UNCHANGED <<storedValue, habits, habitStats, now, pending, failures,
                 valueKind, crashed, timeZone, shownDates>>

peerSetValue(valueToStore) ==
  /\ peer' = valueToStore
  /\ store' = JSONstringify(valueToStore)
  /\ UNCHANGED <<storedValue, habits, habitStats, now, pending, failures,
                 valueKind, crashed, timeZone, shownDates>>

PeerAddHabit ==
  \E name \in Names, emoji \in Emojis, color \in Colors :
    /\ Len(peer) < MaxHabits
    /\ peerSetValue(addHabitUpdater(peer, newHabit(name, emoji, color)))

PeerDeleteHabit ==
  \E id \in IdsOf(peer) : peerSetValue(deleteHabitUpdater(peer, id))

NextTabs ==
  AddHabit \/ DeleteHabit \/ PeerAddHabit \/ PeerDeleteHabit \/ Tick

SpecTabs == Init /\ [][NextTabs]_vars

\* ---- the calendar utilities on their own: any time zone, any instant; the
\* ---- grid is rendered with a range of 1 to DaysShown days
Offsets == {-1, 0, 1}
Shifts == {-1, 1}
ShiftInstants == (0 - DaysShown * MsPerDay)..StatsMaxNow

Zones ==
  {[offset |-> o, shiftAt |-> 0, shift |-> 0] : o \in Offsets} \cup
  {z \in [offset : Offsets, shiftAt : ShiftInstants, shift : Shifts] :
     z.offset + z.shift \in Offsets}

\* the local time is shown by exactly one instant: the shift neither skips
\* nor repeats it
landsOnce(local) ==
  (local - timeZone.offset < timeZone.shiftAt)
    # (local - timeZone.offset - timeZone.shift >= timeZone.shiftAt)

RenderGrid ==
  /\ \E days \in 1..DaysShown : shownDates' = getDateRange(days, now)
  /\ UNCHANGED <<storedValue, habits, store, habitStats, now, pending,
                 failures, valueKind, crashed, timeZone, peer>>

InitDates ==
  /\ timeZone \in Zones
  /\ now \in 0..StatsMaxNow
  \* the scaled-down shift is far longer than a real one: the instants whose
  \* local time of day it skips or repeats on a day of the grid are left out
  /\ \A i \in 0..(DaysShown - 1) : landsOnce(LocalTime(now) - i * MsPerDay)
  /\ shownDates = <<>>
  /\ storedValue = <<>>
  /\ habits = <<>>
  /\ store = NoItem
  /\ habitStats = NoStats
  /\ pending = FALSE
  /\ failures = 0
  /\ valueKind = "array"
  /\ crashed = FALSE
  /\ peer = <<>>

NextDates == RenderGrid

SpecDates == InitDates /\ [][NextDates]_vars

\* ---- the repository across restarts: the page is reloaded, the state cell
\* ---- is initialized from the item again and the first render follows
Restart ==
  /\ ~pending /\ ~crashed
  /\ LET r == initializer(store)
     IN IF r.threw \/ renderThrows(r.kind)
          THEN /\ crashed' = TRUE
               /\ valueKind' = r.kind
               /\ UNCHANGED <<storedValue, habits, habitStats>>
          ELSE /\ storedValue' = r.value
               /\ valueKind' = r.kind
               /\ habits' = r.value
               /\ habitStats' = habitStatsOf(r.value, now)
               /\ crashed' = FALSE
  /\ UNCHANGED <<store, now, pending, failures, timeZone, shownDates, peer>>

NextRestart == AddHabit \/ DeleteHabit \/ ToggleCompletion \/ Tick \/ Restart

SpecRestart == Init /\ [][NextRestart]_vars


\* ---- component re-renders
AddHabitBatched ==
  \E name \in Names, emoji \in Emojis, color \in Colors :
    addHabit(name, emoji, color, TRUE, FALSE)

DeleteHabitBatched ==
  \E id \in IdsOf(habits) \cup {UnknownId} : deleteHabit(id, TRUE, FALSE)

ToggleCompletionBatched ==
  \E habitId \in IdsOf(habits) \cup {UnknownId}, date \in cellDates(now) :
    toggleCompletion(habitId, date, TRUE, FALSE)

\* the re-render: useState returns the latest value, useMemo sees new deps
Render ==
  /\ pending
  /\ habits' = storedValue
  /\ habitStats' = habitStatsOf(storedValue, now)
  /\ pending' = FALSE
  /\ UNCHANGED <<storedValue, store, now, failures>>
  /\ UNCHANGED env

NextBatched ==
  \/ AddHabitBatched \/ DeleteHabitBatched \/ ToggleCompletionBatched
  \/ Render \/ Tick

SpecBatched == Init /\ [][NextBatched]_vars

\* ---- the statistics engine on its own: any stored collection of one habit,
\* ---- any instant; the first render computes the memoized habitStats
InitStats ==
  /\ now \in 0..StatsMaxNow
  /\ \E created \in 0..now, completions \in AllCompletions :
       habits = <<[id |-> ToString(created), name |-> "Read",
                   emoji |-> "book", color |-> "#3B82F6",
                   createdAt |-> formatDate(created),
                   completions |-> completions]>>
  /\ storedValue = habits
  /\ store = JSONstringify(habits)
  /\ habitStats = NoStats
  /\ pending = TRUE
  /\ failures = 0
  /\ valueKind = "array"
  /\ crashed = FALSE
  /\ timeZone = UTC
  /\ shownDates = <<>>
  /\ peer = <<>>

NextStats == Render

SpecStats == InitStats /\ [][NextStats]_vars

\* ======================= properties =======================
StatsFor(i) == habitStats[habits[i].id]

\* ---- C1 ----
\* the walk from yesterday backward stops at the day k+1 days before d0
RunBefore(completions, d0) ==
  CHOOSE k \in 0..(d0 + 1) :
    /\ \A j \in 1..k : Completed(completions, d0 - j)
    /\ ~Completed(completions, d0 - (k + 1))

WalkBack(completions, d0) ==
  (IF Completed(completions, d0) THEN 1 ELSE 0) + RunBefore(completions, d0)

\* C1: currentStreak walks backward from today: today counts when completed
\* and is skipped otherwise; from yesterday backward every completed day adds
\* one and the first day that is not completed ends the walk.
C1_StreakWalksBack ==
  ~pending =>
    \A i \in 1..Len(habits) :
      StatsFor(i).currentStreak
        = WalkBack(habits[i].completions, formatDate(now))

\* ---- C2 ----
\* C2: no two habits of the collection have the same id.
C2_UniqueIds ==
  \A i, j \in 1..Len(storedValue) :
    i # j => storedValue[i].id # storedValue[j].id

\* ---- C3 ----
\* C3: as long as no write has failed, the item stored under "habits" is the
\* serialization of the whole in-memory collection (before the first write
\* there is no item and the collection is the empty default).
C3_StoreMirrorsCollection ==
  failures = 0 =>
    IF store.present THEN store = JSONstringify(storedValue)
    ELSE storedValue = <<>>

C3_Witness ==
  /\ failures = 0
  /\ store.present
  /\ Len(storedValue) = 2
  /\ \E i \in 1..2 : storedValue[i].completions # NoCompletions

\* ---- C4 ----
KnownIds == IdsOf(habits) \cup IdsOf(storedValue) \cup {UnknownId}

\* C4: every call is applied to the result of the previous call, also when
\* the component has not re-rendered in between: the collection after
\* addHabit is the collection before it plus the new habit, after deleteHabit
\* the collection before it without that id, after toggleCompletion the
\* collection before it with that day flipped.
C4_AppliedToLatest ==
  [][/\ \A name \in Names, emoji \in Emojis, color \in Colors :
          addHabit(name, emoji, color, TRUE, FALSE) =>
            storedValue'
              = addHabitUpdater(storedValue, newHabit(name, emoji, color))
     /\ \A id \in KnownIds :
          deleteHabit(id, TRUE, FALSE) =>
            storedValue' = deleteHabitUpdater(storedValue, id)
     /\ \A id \in KnownIds, date \in Days :
          toggleCompletion(id, date, TRUE, FALSE) =>
            storedValue' = toggleCompletionUpdater(storedValue, id, date)
    ]_vars

\* ---- C5 ----
\* C5: the habitStats handed to the presentation layer equal getHabitStats of
\* the current habits at the current date, also after the day has advanced.
C5_StatsFresh == habitStats = habitStatsOf(habits, now)

\* ---- C6 ----
\* a run: entries that are all true and contiguous among the keys present
Runs(completions) ==
  {R \in SUBSET DOMAIN completions :
     /\ R # {}
     /\ \A d \in R : completions[d]
     /\ \A k \in DOMAIN completions :
          ((\E a \in R : a <= k) /\ (\E b \in R : k <= b)) => k \in R}

MaxRun(completions) ==
  IF Runs(completions) = {} THEN 0
  ELSE CHOOSE n \in 1..Cardinality(DOMAIN completions) :
         /\ \E R \in Runs(completions) : Cardinality(R) = n
         /\ \A R \in Runs(completions) : Cardinality(R) <= n

\* C6: longestStreak is the length of the longest run of true entries among
\* the keys present, taken in ascending order; only a false entry resets the
\* run, a day without a key does not.
C6_LongestIsMaxRun ==
  ~pending =>
    \A i \in 1..Len(habits) :
      StatsFor(i).longestStreak = MaxRun(habits[i].completions)

\* true on days 0 and 2, no key for day 1, false on day 3: a run of 2
C6_Witness ==
  /\ ~pending
  /\ DOMAIN habits[1].completions = {0, 2, 3}
  /\ habits[1].completions[0] /\ habits[1].completions[2]
  /\ ~habits[1].completions[3]
  /\ StatsFor(1).longestStreak = 2

\* ---- C7 ----
TrueKeys(completions) == {d \in DOMAIN completions : completions[d]}

\* C7: totalCompletions is the number T of keys with value true, and
\* completionRate is 100*T/K for K keys present, 0 when K = 0.
C7_TotalsAndRate ==
  ~pending =>
    \A i \in 1..Len(habits) :
      LET c == habits[i].completions
          T == Cardinality(TrueKeys(c))
          K == Cardinality(DOMAIN c)
          rate == StatsFor(i).completionRate
      IN /\ StatsFor(i).totalCompletions = T
         /\ rate.den > 0
         /\ rate.num * (IF K = 0 THEN 1 ELSE K) = 100 * T * rate.den

\* two keys true, one key false, one day never toggled: T = 2, K = 3
C7_Witness ==
  /\ ~pending
  /\ DOMAIN habits[1].completions = {0, 1, 2}
  /\ Cardinality(TrueKeys(habits[1].completions)) = 2
  /\ StatsFor(1).totalCompletions = 2
  /\ StatsFor(1).completionRate = [num |-> 200, den |-> 3]

\* ---- C8 ----
\* C8: every habit's completionRate lies in [0, 100], and it is 0 when the
\* habit has no completions entry (no division by zero).
C8_RateBounds ==
  \A i \in 1..Len(habits) :
    LET rate == StatsFor(i).completionRate
    IN /\ rate.den > 0
       /\ 0 <= rate.num
       /\ rate.num <= 100 * rate.den
       /\ habits[i].completions = NoCompletions => rate.num = 0

C8_Witness ==
  \E i, j \in 1..Len(habits) :
    /\ habits[i].completions = NoCompletions
    /\ StatsFor(i).completionRate.num = 0
    /\ StatsFor(j).completionRate = [num |-> 100, den |-> 2]

\* ---- C9 ----
ZeroStats ==
  [currentStreak |-> 0, longestStreak |-> 0,
   completionRate |-> [num |-> 0, den |-> 1], totalCompletions |-> 0]

\* C9: a habit without completions entries, as addHabit creates it, has
\* currentStreak, longestStreak, completionRate and totalCompletions all 0,
\* whatever the date.
C9_EmptyIsZero ==
  \A i \in 1..Len(habits) :
    habits[i].completions = NoCompletions =>
      /\ StatsFor(i) = ZeroStats
      /\ getHabitStats(habits[i], now) = ZeroStats

\* the habit added in this millisecond, on a day after day 0
C9_Witness ==
  /\ Len(habits) > 0
  /\ formatDate(now) > 0
  /\ habits[Len(habits)].id = ToString(now)
  /\ habits[Len(habits)].completions = NoCompletions
  /\ StatsFor(Len(habits)) = ZeroStats

\* ---- C10 ----
\* a step in which the state cell receives what toggleCompletion(id, date)
\* computes from the collection of the last render, whatever the write does
toggleCompletionSets(id, date) ==
  /\ now' = now
  /\ storedValue' = toggleCompletionUpdater(habits, id, date)

\* C10: toggleCompletion of an id in the collection stores at that day the
\* negation of the value it had, an absent key counting as false.
C10_ToggleNegates ==
  [][\A id \in IdsOf(storedValue), date \in 0..formatDate(now) :
       toggleCompletionSets(id, date) =>
         /\ Len(storedValue') = Len(storedValue)
         /\ \A i \in 1..Len(storedValue) :
              storedValue[i].id = id =>
                /\ date \in DOMAIN storedValue'[i].completions
                /\ storedValue'[i].completions[date]
                     = ~Completed(storedValue[i].completions, date)
    ]_vars

\* an explicit false entry: a toggle has turned a true entry into false
C10_Witness ==
  \E i \in 1..Len(storedValue) :
    \E date \in DOMAIN storedValue[i].completions :
      ~storedValue[i].completions[date]

\* ---- C11 ----
\* C11: toggleCompletion is its own inverse: after a toggleCompletion(h, d)
\* the same call, computed from the collection the re-render hands to it,
\* gives every habit the completion at d it had before the first call
\* (absent and false both being "not completed") and changes nothing else.
C11_ToggleTwiceRestores ==
  [][\A id \in IdsOf(storedValue), date \in 0..formatDate(now) :
       toggleCompletionSets(id, date) /\ habits' = storedValue' =>
         LET again == toggleCompletionUpdater(habits', id, date)
         IN /\ Len(again) = Len(storedValue)
            /\ \A i \in 1..Len(storedValue) :
                 LET after == again[i]
                     before == storedValue[i]
                 IN /\ Completed(after.completions, date)
                         = Completed(before.completions, date)
                    /\ \A d \in DOMAIN before.completions \ {date} :
                         /\ d \in DOMAIN after.completions
                         /\ after.completions[d] = before.completions[d]
                    /\ after.id = before.id
    ]_vars

\* an explicit false entry: the day was toggled on and off again
C11_Witness ==
  /\ Len(storedValue) > 0
  /\ \E date \in DOMAIN storedValue[1].completions :
       /\ ~storedValue[1].completions[date]
       /\ Cardinality(DOMAIN storedValue[1].completions) = 1

\* ---- C12 ----
\* C12: deleteHabit is idempotent: after deleteHabit(id) no habit of that id
\* remains, and the same call again leaves the collection as it is.
C12_DeleteIdempotent ==
  [][\A id \in IdsOf(storedValue) \cup {UnknownId}, ok \in BOOLEAN :
       deleteHabit(id, ok, TRUE) =>
         /\ id \notin IdsOf(storedValue')
         /\ deleteHabitUpdater(habits', id) = storedValue'
    ]_vars

\* the store still holds two habits, the collection one: a deleteHabit whose
\* write failed has removed the other
C12_Witness ==
  /\ failures = 1
  /\ store.present
  /\ Len(store.text) = 2
  /\ Len(storedValue) = 1

\* ---- C13 ----
\* a step in which the state cell receives what deleteHabit(id) computes from
\* the collection of the last render
deleteHabitSets(id) ==
  /\ now' = now
  /\ storedValue' = deleteHabitUpdater(habits, id)

\* C13: deleteHabit and toggleCompletion with an id that no habit has leave
\* the in-memory collection as it is: same habits, same order, same
\* completions.
C13_UnknownIdNoOp ==
  [][/\ deleteHabitSets(UnknownId) =>
            storedValue' = storedValue /\ habits' = habits
     /\ \A date \in 0..formatDate(now) :
          toggleCompletionSets(UnknownId, date) =>
            storedValue' = storedValue /\ habits' = habits
    ]_vars

\* nothing stored, one failed write, the collection as it started: the call
\* whose write failed was a deleteHabit or toggleCompletion of an id that no
\* habit has
C13_Witness ==
  /\ storedValue = <<>>
  /\ habits = <<>>
  /\ ~store.present
  /\ failures = 1

\* ---- C14 ----
\* C14: addHabit appends exactly one habit at the end and leaves the existing
\* habits and their order alone; the new habit carries name, emoji and color
\* as given, createdAt = the identifier of today, and no completions.
C14_AddAppends ==
  [][\A name \in Names, emoji \in Emojis, color \in Colors, ok \in BOOLEAN :
       addHabit(name, emoji, color, ok, TRUE) =>
         /\ Len(storedValue') = Len(storedValue) + 1
         /\ SubSeq(storedValue', 1, Len(storedValue)) = storedValue
         /\ LET h == storedValue'[Len(storedValue')]
            IN /\ h.name = name /\ h.emoji = emoji /\ h.color = color
               /\ h.createdAt = formatDate(now)
               /\ h.completions = NoCompletions
    ]_vars

\* a second habit appended behind one that already has an entry
C14_Witness ==
  /\ Len(storedValue) = 2
  /\ storedValue[1].completions # NoCompletions
  /\ storedValue[2].completions = NoCompletions
  /\ storedValue[2].createdAt = formatDate(now)
  /\ storedValue[2].createdAt > storedValue[1].createdAt

\* ---- C15 ----
\* C15: addHabit followed by deleteHabit of the id just assigned gives back
\* the collection as it was before the add.
C15_AddThenDeleteRestores ==
  [][\A name \in Names, emoji \in Emojis, color \in Colors, ok \in BOOLEAN :
       addHabit(name, emoji, color, ok, TRUE) =>
         deleteHabitUpdater(habits', storedValue'[Len(storedValue')].id)
           = storedValue
    ]_vars

\* ---- C16 ----
\* C16: through the operations the repository exposes, a habit that stays in
\* the collection keeps its id and its createdAt, and its completions change
\* by one day's flag being flipped or not at all.
C16_OnlyToggleMutates ==
  [][Len(storedValue') = Len(storedValue) =>
       \A i \in 1..Len(storedValue) :
         /\ storedValue'[i].id = storedValue[i].id
         /\ storedValue'[i].createdAt = storedValue[i].createdAt
         /\ \/ storedValue'[i].completions = storedValue[i].completions
            \/ \E date \in Days :
                 storedValue'[i].completions
                   = toggleEntry(storedValue[i].completions, date)
    ]_vars

\* ---- C17 ----
\* C17: when the write of a mutation fails, the call still returns, the
\* in-memory collection holds the mutated value and the store holds what the
\* last successful write left there.
C17_FailedWriteKeepsMemory ==
  [][failures' = failures + 1 =>
       /\ \A name \in Names, emoji \in Emojis, color \in Colors :
            addHabit(name, emoji, color, FALSE, TRUE) =>
              /\ store' = store
              /\ Len(storedValue') = Len(storedValue) + 1
              /\ habits' = storedValue'
       /\ \A id \in IdsOf(storedValue) \cup {UnknownId} :
            /\ deleteHabit(id, FALSE, TRUE) =>
                 /\ store' = store
                 /\ id \notin IdsOf(storedValue')
                 /\ habits' = storedValue'
            /\ \A date \in 0..formatDate(now) :
                 toggleCompletion(id, date, FALSE, TRUE) =>
                   /\ store' = store
                   /\ \A i \in 1..Len(storedValue) :
                        storedValue[i].id = id =>
                          Completed(storedValue'[i].completions, date)
                            = ~Completed(storedValue[i].completions, date)
                   /\ habits' = storedValue'
    ]_vars

\* the first write failed: a habit in memory, no item in the store
C17_Witness ==
  /\ failures = 1
  /\ ~store.present
  /\ Len(storedValue) = 1
  /\ habits = storedValue

\* ---- C18 ----
\* C18: every mutation whose write succeeds, also after failed writes, stores
\* the whole in-memory collection as it is after the call; and the store
\* changes in no other step (nothing is retried on its own). A step that
\* changes the state and neither counts a failed write nor advances the clock
\* is a mutation whose write succeeded.
C18_NextWriteRepairs ==
  [][/\ (failures' = failures /\ now' = now) =>
          store' = JSONstringify(storedValue')
     /\ (failures' # failures \/ now' # now) => store' = store
    ]_vars

\* a write has failed, and the store holds both habits of the collection
\* the add whose write failed left only in memory
C18_Witness ==
  /\ failures = 1
  /\ store = JSONstringify(storedValue)
  /\ Len(storedValue) = 2
  /\ storedValue[2].completions # NoCompletions

\* ---- C19 ----
\* C19: once mounted on a key never written, or on a stored text that does
\* not parse, the binding holds the default (the empty collection) and no
\* failure has reached the caller.
C19_DefaultOnMissingOrCorrupt ==
  (~pending \/ crashed) /\ (~store.present \/ store.kind \in {"empty", "corrupt"})
    => /\ ~crashed
       /\ valueKind = "array"
       /\ storedValue = <<>>
       /\ habits = <<>>

\* mounted on corrupt text
C19_Witness ==
  /\ ~pending
  /\ ~crashed
  /\ store.kind = "corrupt"
  /\ storedValue = <<>>

\* ---- C20 ----
\* C20: once mounted on a stored text that parses to something that is no
\* array of Habit records, the repository holds the default empty collection
\* and nothing has crashed.
C20_DefaultOnWrongShape ==
  (~pending \/ crashed) /\ store.kind \in OtherJSON
    => /\ ~crashed
       /\ valueKind = "array"
       /\ storedValue = <<>>

\* ---- C21 ----
\* C21: a value written by a successful set is what re-initializing the
\* binding from the store yields: a restart gives the collection the item
\* holds, which is the in-memory collection whenever the last mutation's
\* write succeeded; and a stored null, false, 0 or other value that is no
\* habit collection is read back as that value, not replaced by the default.
C21_RoundTrip ==
  [][Restart =>
       /\ store.present => JSONstringify(storedValue') = store
       /\ store = JSONstringify(storedValue) =>
            storedValue' = storedValue /\ habits' = storedValue
       /\ \A k \in OtherJSON :
            initializer(Item(k)) = [threw |-> FALSE, kind |-> k, value |-> <<>>]
       /\ initializer(JSONstringify(<<>>))
            = [threw |-> FALSE, kind |-> "array", value |-> <<>>]
    ]_vars

\* a write has failed and the collection in memory is again the stored one,
\* an explicit false entry included
C21_Witness ==
  /\ failures = 1
  /\ Len(storedValue) = 1
  /\ store = JSONstringify(storedValue)
  /\ habits = storedValue
  /\ \E d \in DOMAIN storedValue[1].completions :
       ~storedValue[1].completions[d]

\* ---- C22 ----
shownIds == [k \in 1..Len(shownDates) |-> formatDate(shownDates[k])]

\* C22: the identifiers of getDateRange(n) are n distinct ones in strictly
\* ascending order, and the last one is today's.
C22_RangeDistinctAscending ==
  shownDates # <<>> =>
    /\ Cardinality({shownIds[k] : k \in 1..Len(shownIds)}) = Len(shownDates)
    /\ \A j, k \in 1..Len(shownIds) : j < k => shownIds[j] < shownIds[k]
    /\ shownIds[Len(shownIds)] = formatDate(now)

\* ---- C23 ----
\* C23: consecutive identifiers of the range are exactly one calendar day
\* apart, in every time zone and across a daylight-saving shift.
C23_RangeOneDayApart ==
  \A k \in 1..(Len(shownIds) - 1) : shownIds[k + 1] = shownIds[k] + 1

\* ---- C24 ----
\* C24: formatDate gives two instants the same identifier exactly when they
\* fall on the same local calendar day, and today's identifier is the local
\* date.
C24_LocalDayIdentifier ==
  /\ formatDate(now) = getDate(now)
  /\ \A k \in 1..Len(shownDates) :
       isToday(shownDates[k], now) <=> getDate(shownDates[k]) = getDate(now)
  /\ \A j, k \in 1..Len(shownDates) :
       formatDate(shownDates[j]) = formatDate(shownDates[k])
         <=> getDate(shownDates[j]) = getDate(shownDates[k])

\* ---- C25 ----
HabitFields == {"id", "name", "emoji", "color", "createdAt", "completions"}

\* C25: statistics are never persisted: the item "habits" is an array of
\* Habit records with the fields id, name, emoji, color, createdAt and
\* completions and nothing else.
C25_StatsNotPersisted ==
  store.present =>
    /\ store.kind = "array"
    /\ \A i \in 1..Len(store.text) : DOMAIN store.text[i] = HabitFields

\* statistics have been computed for a habit with completions, and its
\* record is in the store
C25_Witness ==
  /\ store.present
  /\ \E i \in 1..Len(store.text) :
       /\ store.text[i].id \in DOMAIN habitStats
       /\ habitStats[store.text[i].id].totalCompletions > 0
       /\ habitStats[store.text[i].id].currentStreak > 0

\* ---- C26 ----
\* C26: with two tabs the store is last-write-wins without merge: as long as
\* no write has failed, the item is the whole collection of one of the two
\* tabs, the one that wrote last.
C26_LastWriteWins ==
  store.present /\ failures = 0 =>
    store = JSONstringify(storedValue) \/ store = JSONstringify(peer)

\* a lost update: the second tab holds a habit it persisted, and the store is
\* the first tab's later write, which does not contain it
C26_Witness ==
  /\ failures = 0
  /\ Len(storedValue) > 0
  /\ store = JSONstringify(storedValue)
  /\ \E i \in 1..Len(peer) :
       peer[i].id \notin {store.text[j].id : j \in 1..Len(store.text)}

\* ---- C27 ----
\* prev without its k-th habit; prev itself for k = 0
WithoutAt(prev, k) ==
  IF k = 0 THEN prev
  ELSE SubSeq(prev, 1, k - 1) \o SubSeq(prev, k + 1, Len(prev))

\* C27: toggleCompletion(h, d) changes the completions of at most one habit
\* and only at key d, deleteHabit(id) removes at most one habit, and both
\* leave every other habit and the order of the habits as they are.
C27_Frame ==
  [][/\ \A id \in IdsOf(storedValue) \cup {UnknownId},
           date \in 0..formatDate(now) :
          (\E ok \in BOOLEAN : toggleCompletion(id, date, ok, TRUE)) =>
            /\ Len(storedValue') = Len(storedValue)
            /\ Cardinality({i \in 1..Len(storedValue) :
                              storedValue'[i] # storedValue[i]}) <= 1
            /\ \A i \in 1..Len(storedValue) :
                 /\ storedValue'[i]
                      = [storedValue[i] EXCEPT
                           !.completions = storedValue'[i].completions]
                 /\ \A d \in DOMAIN storedValue'[i].completions \ {date} :
                      /\ d \in DOMAIN storedValue[i].completions
                      /\ storedValue'[i].completions[d]
                           = storedValue[i].completions[d]
                 /\ DOMAIN storedValue[i].completions
                      \subseteq DOMAIN storedValue'[i].completions
     /\ \A id \in IdsOf(storedValue) \cup {UnknownId} :
          (\E ok \in BOOLEAN : deleteHabit(id, ok, TRUE)) =>
            \E k \in 0..Len(storedValue) :
              storedValue' = WithoutAt(storedValue, k)
    ]_vars

\* ---- C28 ----
\* C28: for every habit that stays in the collection the set of days with an
\* explicit entry only grows, whatever operation is applied: no key is ever
\* removed from a completions map and the completion-rate denominator never
\* decreases.
C28_KeysOnlyGrow ==
  [][Len(storedValue') = Len(storedValue) =>
       \A i \in 1..Len(storedValue) :
         /\ DOMAIN storedValue[i].completions
              \subseteq DOMAIN storedValue'[i].completions
         /\ totalDays(storedValue'[i].completions)
              >= totalDays(storedValue[i].completions)
    ]_vars

\* ---- C29 ----
\* C29: the statistics of every habit satisfy
\* 0 <= currentStreak <= longestStreak <= totalCompletions <= number of keys.
C29_StatsOrdered ==
  ~pending =>
    \A i \in 1..Len(habits) :
      LET stats == habitStats[habits[i].id]
      IN /\ 0 <= stats.currentStreak
         /\ stats.currentStreak <= stats.longestStreak
         /\ stats.longestStreak <= stats.totalCompletions
         /\ stats.totalCompletions <= totalDays(habits[i].completions)

\* every inequality strict: today completed, a longer run, an isolated
\* completion and an explicit false
C29_Witness ==
  /\ ~pending
  /\ LET stats == habitStats[habits[1].id]
     IN /\ 0 < stats.currentStreak
        /\ stats.currentStreak < stats.longestStreak
        /\ stats.longestStreak < stats.totalCompletions
        /\ stats.totalCompletions < totalDays(habits[1].completions)

====
